---- MODULE Spec2Model ----
(***************************************************************************)
(* Model of mc3000.py: the MC3000 USB interface class.                     *)
(*                                                                         *)
(* A byte string is a sequence of integers 0..255; offset i of the Python  *)
(* code is element i+1 of the sequence.  The USB device is the environment:*)
(* it accepts every write and answers every read with a 64-byte frame the  *)
(* caller does not control.  One action is one complete method call; the   *)
(* writes and reads the call performed are recorded, in order, in trace.   *)
(***************************************************************************)
EXTENDS Integers, Sequences, FiniteSets, TLC

VARIABLES
    machine_info,   \* self.machine_info
    battery_data,   \* self.battery_data (assigned by the constructor only)
    call,           \* the method called last ("init" after construction)
    arg,            \* its argument
    trace,          \* the transport operations that call performed, in order
    outcome,        \* "ok", or the name of the exception that left the call
    result          \* what the call returned (NoResult when it raised)

vars == <<machine_info, battery_data, call, arg, trace, outcome, result>>

\* ------------------------------------------------------------------ bounds

\* Largest slot argument handed to send() directly.
MaxSlotArg == 255
\* Longest explicit list of slot indices handed to get_charging_progress().
MaxListLen == 2

\* --------------------------------------------------------------- constants

FrameLen == 64
NumSlots == 4
CMD_READ_PROGRESS_DATA == 85
CMD_READ_CHARGER_DATA == 95
CMD_PACKET_HEADER == <<15, 4>>
CMD_PACKET_TAIL == <<255, 255>>
MachineInfoRequest == <<15, 4, 90, 0, 4, 94, 255, 255>>
StartPacket == <<15, 3, 5, 0, 5, 255, 255>>
StopPacket == <<15, 3, 254, 0, 254, 255, 255>>

BATTERY_MODE ==
    0 :> "Charging" @@ 1 :> "Refreshing" @@ 2 :> "Storing" @@
    3 :> "Discharging" @@ 4 :> "Cycling"
BATTERY_TYPE ==
    0 :> "LiIon" @@ 1 :> "LiFe" @@ 2 :> "LiHV" @@ 3 :> "NiMH" @@
    4 :> "NiCd" @@ 5 :> "NiZn" @@ 6 :> "Eneloop"
CYCLE_MODE == 0 :> "C>D" @@ 1 :> "C>D>C" @@ 2 :> "D>C" @@ 3 :> "D>C>C"
TEM_UNIT == <<"C", "F">>

\* What a call that raised, or that returns None, leaves as its result.
NoResult == [kind |-> "none"]
\* The argument of a call that takes none.
NoArg == [kind |-> "none", v |-> <<>>]

\* ------------------------------------------------------------ byte helpers

\* data[i] of a bytes object.
At(data, i) == data[i + 1]

\* struct format 'B': one unsigned byte at offset i.
U8(data, i) == At(data, i)

\* struct format 'b' when unpacking: one signed byte at offset i.
S8(data, i) == IF At(data, i) >= 128 THEN At(data, i) - 256 ELSE At(data, i)

\* struct format '>h': big-endian signed 16-bit integer at offsets i, i+1.
S16(data, i) ==
    LET u == At(data, i) * 256 + At(data, i + 1)
    IN  IF u >= 32768 THEN u - 65536 ELSE u

\* x & 0xff for a Python integer of either sign.
Mask8(x) == x % 256

\* ~x for a Python integer.
BitNot(x) == -x - 1

\* x & 0x7fff for a Python integer of either sign.
Mask15(x) == x % 32768

\* A 64-byte frame that is zero except at the offsets in DOMAIN bytes.
Frame(bytes) ==
    [i \in 1..FrameLen |-> IF (i - 1) \in DOMAIN bytes THEN bytes[i - 1] ELSE 0]

\* ------------------------------------------------------- transport records

Write(buffer) == [dir |-> "write", data |-> buffer]
Read(response) == [dir |-> "read", data |-> response]

\* ----------------------------------------------------------------- checksum

RECURSIVE ChecksumRange(_, _, _)
\* crc after the iterations lo .. hi of the loop of packet_checksum, started
\* from crc = 0.  Masking after every addition keeps the sum modulo 256, so
\* the iterations are evaluated in two halves whose results are added and
\* masked again.
ChecksumRange(data_packet, lo, hi) ==
    IF lo = hi THEN Mask8(0 + At(data_packet, lo))
    ELSE LET mid == (lo + hi) \div 2
         IN  Mask8(ChecksumRange(data_packet, lo, mid)
                   + ChecksumRange(data_packet, mid + 1, hi))

\* MC3000.packet_checksum: for i in range(0, 63)
packet_checksum(data_packet) == ChecksumRange(data_packet, 0, 62)

\* A frame with its last byte set to the checksum of the first 63.
Sealed(frame) == [frame EXCEPT ![FrameLen] = packet_checksum(frame)]

\* -------------------------------------------------------------------- send

\* struct format 'b' when packing: the value must fit a signed char.
FitsSignedByte(v) == v >= -128 /\ v <= 127

\* The byte struct.pack writes for a signed char v.
PackB(v) == v % 256

\* Mutant of CmdPacket: the command zero-padded to a full 64-byte frame.
CmdPacket_Padded(cmd, buffer, slotcmd) ==
    [i \in 1..FrameLen |->
        IF i <= 8
        THEN (CMD_PACKET_HEADER \o <<cmd, 0, PackB(buffer), PackB(slotcmd)>>
              \o CMD_PACKET_TAIL)[i]
        ELSE 0]

\* The '2scxbb2s' frame built by send(), as the bytes that are written.
CmdPacket(cmd, buffer, slotcmd) ==
    CMD_PACKET_HEADER \o <<cmd, 0, PackB(buffer), PackB(slotcmd)>> \o CMD_PACKET_TAIL

\* A Python value handed over as a slot: the integer n, a list or a set of
\* integers (v holds the elements in order), or the string 'all'.
PyInt(n) == [kind |-> "int", v |-> <<n>>]
PyList(q) == [kind |-> "list", v |-> q]
PySet(q) == [kind |-> "set", v |-> q]
PyAll == [kind |-> "all", v |-> <<>>]

\* The integer a PyInt holds.
IntOf(value) == value.v[1]

\* MC3000.send: what the call does for opcode cmd and payload buffer.
\* The result is [outcome, trace]: the exception, if any, and the writes done.
\* Adding a list or a set to the opcode raises TypeError; a slot or a sum
\* that does not fit the 'b' format raises struct.error.
SendEffect(cmd, buffer) ==
    IF cmd \notin {CMD_READ_CHARGER_DATA, CMD_READ_PROGRESS_DATA}
    THEN [outcome |-> "ok", trace |-> <<>>]
    ELSE IF buffer.kind # "int"
    THEN [outcome |-> "TypeError", trace |-> <<>>]
    ELSE LET slotcmd == cmd + IntOf(buffer)
         IN  IF FitsSignedByte(IntOf(buffer)) /\ FitsSignedByte(slotcmd)
             THEN [outcome |-> "ok",
                   trace |-> <<Write(CmdPacket(cmd, IntOf(buffer), slotcmd))>>]
             ELSE [outcome |-> "struct.error", trace |-> <<>>]

\* ------------------------------------------------------------ machine info

HexDigits ==
    <<"0", "1", "2", "3", "4", "5", "6", "7", "8", "9", "A", "B", "C", "D", "E", "F">>

\* '{:X}'.format(b): the shortest upper-case hexadecimal rendering of a byte.
FormatX(b) ==
    IF b < 16 THEN <<HexDigits[b + 1]>>
    ELSE <<HexDigits[(b \div 16) + 1], HexDigits[(b % 16) + 1]>>

\* '{s:{c}>{n}}'.format(s=text, n=2, c='0'): right-justify to width 2 with '0'.
PadTwo(text) == IF Len(text) < 2 THEN <<"0">> \o text ELSE text

RECURSIVE MachineCrcSum_Preceding(_, _)
\* Mutant of MachineCrcSum: the 15 bytes before the identifier block
\* (response[1 + j]) are added instead of those inside it.
MachineCrcSum_Preceding(response, j) ==
    IF j >= 15 THEN 0
    ELSE At(response, 1 + j) + MachineCrcSum_Preceding(response, j + 1)

RECURSIVE MachineCrcSum(_, _)
\* crc after the iterations j .. 15 of the loop of get_machine_info have added
\* their bytes (only j < 15 adds response[16 + j]).
MachineCrcSum(response, j) ==
    IF j >= 15 THEN 0
    ELSE At(response, 16 + j) + MachineCrcSum(response, j + 1)

RECURSIVE MachineIdFrom(_, _)
\* machine_id as built by the iterations j .. 15 of the same loop.
MachineIdFrom(response, j) ==
    IF j >= 16 THEN <<>>
    ELSE PadTwo(FormatX(At(response, 16 + j))) \o MachineIdFrom(response, j + 1)

\* The value get_machine_info compares with the checksum field:
\* crc = ~crc & 0xff; crc += 1.
MachineCrc(response) == Mask8(BitNot(MachineCrcSum(response, 0))) + 1

\* bytes.decode('utf-8', errors='replace') of one byte that is either ASCII
\* or one of 0xF8..0xFF, which no UTF-8 sequence contains (U+FFFD replaces it).
DecodeByte(b) == IF b < 128 THEN b ELSE 65533

\* '{:.2f}'.format(hi * 1.0 + lo * 1.0 / 100.0), as <<integer part, hundredths>>.
SoftwareVersion(hi, lo) == <<(hi * 100 + lo) \div 100, (hi * 100 + lo) % 100>>

\* unpack(MACHINE_INFO_STRUCT, response[:32]) into MachineInfo(*data, 0,
\* machine_id), followed by the _replace calls that cannot raise.
UnpackMachineInfo(response) ==
    [Sys_Mem1 |-> U8(response, 3), Sys_Mem2 |-> U8(response, 4),
     Sys_Mem3 |-> U8(response, 5), Sys_Mem4 |-> U8(response, 6),
     Sys_Advance |-> (U8(response, 7) = 1),
     Sys_tUnit |-> U8(response, 8),
     Sys_Buzzer_Tone |-> U8(response, 9),
     Sys_Life_Hide |-> (U8(response, 10) = 1),
     Sys_LiHv_Hide |-> (U8(response, 11) = 1),
     Sys_Eneloop_Hide |-> (U8(response, 12) = 1),
     Sys_NiZn_Hide |-> (U8(response, 13) = 1),
     Sys_Lcd_time |-> U8(response, 14),
     Sys_Min_Input |-> U8(response, 15),
     core_type |-> [k \in 1..6 |-> DecodeByte(At(response, 15 + k))],
     upgrade_type |-> U8(response, 22),
     is_encrypted |-> (U8(response, 23) = 1),
     customer_id |-> S16(response, 24),
     language_id |-> U8(response, 26),
     software_version_hi |-> U8(response, 27),
     software_version_lo |-> U8(response, 28),
     hardware_version |-> U8(response, 29),
     reserved |-> S8(response, 30),
     checksum |-> U8(response, 31),
     software_version |-> SoftwareVersion(U8(response, 27), U8(response, 28)),
     machine_id |-> MachineIdFrom(response, 0)]

\* get_machine_info after the read: [outcome, machine], machine being the local
\* variable when the method raised and the record it stored and returned
\* otherwise.
DecodeMachineInfo(response) ==
    LET machine == UnpackMachineInfo(response)
    IN  IF machine.Sys_tUnit >= Len(TEM_UNIT)
        THEN [outcome |-> "IndexError", machine |-> machine]
        ELSE IF MachineCrc(response) # machine.checksum
        THEN [outcome |-> "Exception", machine |-> machine]
        ELSE [outcome |-> "ok",
              machine |-> [machine EXCEPT !.Sys_tUnit = TEM_UNIT[machine.Sys_tUnit + 1]]]

\* ------------------------------------------------------------ battery data

\* unpack(CHARGE_DATA_STRUCT, response) into Battery(*data).
UnpackBattery(response) ==
    [slot |-> U8(response, 1), work |-> U8(response, 2),
     type |-> U8(response, 3), mode |-> U8(response, 4),
     caps |-> S16(response, 5), cur |-> S16(response, 7),
     dCur |-> S16(response, 9), cut_volt |-> S16(response, 11),
     end_volt |-> S16(response, 13), end_cur |-> S16(response, 15),
     end_dcur |-> S16(response, 17), cycle_count |-> U8(response, 19),
     cycle_delay |-> U8(response, 20), cycle_mode |-> U8(response, 21),
     peak_sense |-> U8(response, 22), trickle |-> U8(response, 23),
     hold_volt |-> S16(response, 24), cut_temp |-> U8(response, 26),
     cut_time |-> S16(response, 27), tem_unit |-> U8(response, 29),
     checksum |-> U8(response, 63)]

\* The four table lookups of get_battery_data: [outcome, battery], battery
\* being the local variable when a lookup raised.
ResolveBattery(battery) ==
    IF battery.type \notin DOMAIN BATTERY_TYPE
    THEN [outcome |-> "KeyError", battery |-> battery]
    ELSE IF battery.mode \notin DOMAIN BATTERY_MODE
    THEN [outcome |-> "KeyError", battery |-> battery]
    ELSE IF battery.cycle_mode \notin DOMAIN CYCLE_MODE
    THEN [outcome |-> "KeyError", battery |-> battery]
    ELSE IF battery.tem_unit >= Len(TEM_UNIT)
    THEN [outcome |-> "IndexError", battery |-> battery]
    ELSE [outcome |-> "ok",
          battery |-> [battery EXCEPT !.type = BATTERY_TYPE[battery.type],
                                      !.mode = BATTERY_MODE[battery.mode],
                                      !.cycle_mode = CYCLE_MODE[battery.cycle_mode],
                                      !.tem_unit = TEM_UNIT[battery.tem_unit + 1]]]

\* response[-1] != self.packet_checksum(response)
ChecksumFails(response) == At(response, FrameLen - 1) # packet_checksum(response)

RECURSIVE BatteryLoop(_, _, _, _)
\* The loop of get_battery_data from slot on: responses[slot + 1] is what the
\* device answers to the request for that slot, batteries and tr are the list
\* and the transport trace so far.  The result is [outcome, result, trace];
\* result is the list returned, and empty when the method raised.
BatteryLoop(responses, slot, batteries, tr) ==
    IF slot >= NumSlots
    THEN [outcome |-> "ok", result |-> batteries, trace |-> tr]
    ELSE LET sent == SendEffect(CMD_READ_CHARGER_DATA, PyInt(slot))
             response == responses[slot + 1]
             tr2 == tr \o sent.trace \o <<Read(response)>>
             res == ResolveBattery(UnpackBattery(response))
         IN  IF sent.outcome # "ok"
             THEN [outcome |-> sent.outcome, result |-> <<>>,
                   trace |-> tr \o sent.trace]
             ELSE IF ChecksumFails(response)
             THEN BatteryLoop(responses, slot + 1, batteries, tr2)
             ELSE IF res.outcome # "ok"
             THEN [outcome |-> res.outcome, result |-> <<>>, trace |-> tr2]
             ELSE BatteryLoop(responses, slot + 1, Append(batteries, res.battery), tr2)

\* MC3000.get_battery_data, the device answering with responses.
GetBatteryData(responses) == BatteryLoop(responses, 0, <<>>, <<>>)

\* ------------------------------------------------------- charging progress

\* Mutant of UnpackProgress: the layout lacks the leading pad byte, so every
\* one-byte field before work_time is taken one offset too early.
UnpackProgress_NoLeadingPad(response) ==
    [slot |-> U8(response, 0), type |-> U8(response, 1),
     status |-> U8(response, 3), work |-> U8(response, 4),
     work_time |-> S16(response, 6), voltage |-> S16(response, 8),
     current |-> S16(response, 10), caps |-> S16(response, 12),
     bat_tem |-> S16(response, 14), inner_resistance |-> S16(response, 16),
     caps_decimal |-> U8(response, 24), checksum |-> U8(response, 63),
     dcaps |-> 0]

\* unpack(PROGRESS_STATUS_STRUCT, response) into ProgressInfo(*data, 0).
UnpackProgress(response) ==
    [slot |-> U8(response, 1), type |-> U8(response, 2),
     status |-> U8(response, 4), work |-> U8(response, 5),
     work_time |-> S16(response, 6), voltage |-> S16(response, 8),
     current |-> S16(response, 10), caps |-> S16(response, 12),
     bat_tem |-> S16(response, 14), inner_resistance |-> S16(response, 16),
     caps_decimal |-> U8(response, 24), checksum |-> U8(response, 63),
     dcaps |-> 0]

\* if pinfo.work == 2: pinfo = pinfo._replace(dcaps=pinfo.caps)
SetDcaps(pinfo) == IF pinfo.work = 2 THEN [pinfo EXCEPT !.dcaps = pinfo.caps] ELSE pinfo

\* Mutant of CorrectWorkTime: the decrement without its guard.
CorrectWorkTime_Unguarded(pinfo) == [pinfo EXCEPT !.work_time = pinfo.work_time - 1]

\* if pinfo.work_time > 0: pinfo = pinfo._replace(work_time=pinfo.work_time - 1)
CorrectWorkTime(pinfo) ==
    IF pinfo.work_time > 0 THEN [pinfo EXCEPT !.work_time = pinfo.work_time - 1]
    ELSE pinfo

\* pinfo = pinfo._replace(bat_tem=pinfo.bat_tem & 0x7fff)
MaskBatTem(pinfo) == [pinfo EXCEPT !.bat_tem = Mask15(pinfo.bat_tem)]

\* The decoding of one progress response whose checksum matched.
DecodeProgress(response) == MaskBatTem(CorrectWorkTime(SetDcaps(UnpackProgress(response))))

\* The values the loop variable slot takes in get_charging_progress:
\* range(4) for 'all', and otherwise the one-element list [battery_slot].
ProgressSlots(battery_slot) ==
    IF battery_slot.kind = "all"
    THEN [k \in 1..NumSlots |-> PyInt(k - 1)]
    ELSE <<battery_slot>>

RECURSIVE ProgressLoop(_, _, _, _, _)
\* The loop of get_charging_progress from the k-th element of slots on.
ProgressLoop(slots, responses, k, batteries, tr) ==
    IF k > Len(slots)
    THEN [outcome |-> "ok", result |-> batteries, trace |-> tr]
    ELSE LET sent == SendEffect(CMD_READ_PROGRESS_DATA, slots[k])
             response == responses[k]
             tr2 == tr \o sent.trace \o <<Read(response)>>
         IN  IF sent.outcome # "ok"
             THEN [outcome |-> sent.outcome, result |-> <<>>,
                   trace |-> tr \o sent.trace]
             ELSE IF ChecksumFails(response)
             THEN ProgressLoop(slots, responses, k + 1, batteries, tr2)
             ELSE ProgressLoop(slots, responses, k + 1,
                               Append(batteries, DecodeProgress(response)), tr2)

\* MC3000.get_charging_progress, the device answering with responses.
GetChargingProgress(battery_slot, responses) ==
    ProgressLoop(ProgressSlots(battery_slot), responses, 1, <<>>, <<>>)

\* ------------------------------------------------- what the device answers

\* Answers to the machine-info request: the temperature-unit selector (offset
\* 8), the first and the last summed byte (offsets 16, 30) and the checksum
\* field (offset 31) vary; the sums include 0 and 256.
MachineInfoResponses ==
    {Frame(8 :> t @@ 16 :> a @@ 30 :> b @@ 31 :> c) :
        t \in {0, 1, 2}, a \in {0, 1, 255}, b \in {0, 1}, c \in {0, 1, 254, 255}}

\* A charger-data answer whose codes all resolve, echoing slot s.
GoodBattery(s) == Sealed(Frame(1 :> s @@ 2 :> 1 @@ 3 :> 3 @@ 4 :> 4 @@ 21 :> 1 @@ 29 :> 1))

\* A frame whose last byte is not the checksum of the first 63.
Corrupted(frame) == [frame EXCEPT ![FrameLen] = (frame[FrameLen] + 1) % 256]

\* Answers to a charger-data request: well-formed ones for every slot, one
\* with a wrong checksum byte, and one per lookup table with a code the table
\* does not hold.
BatteryResponses ==
    {GoodBattery(s) : s \in 0..(NumSlots - 1)}
    \cup {Corrupted(GoodBattery(0))}
    \cup {Sealed(Frame(1 :> 1 @@ 3 :> 7)), Sealed(Frame(1 :> 1 @@ 4 :> 5)),
          Sealed(Frame(1 :> 1 @@ 21 :> 4)), Sealed(Frame(1 :> 1 @@ 29 :> 2))}

\* The raw work_time fields tried, as <<high byte, low byte>>:
\* 0, 1, 10, 32767, -32768, -1.
WorkTimeBytes == {<<0, 0>>, <<0, 1>>, <<0, 10>>, <<127, 255>>, <<128, 0>>, <<255, 255>>}

\* A progress answer echoing slot s, in work mode w, with raw work_time wt,
\* caps 1200 and the top bit of bat_tem set.
ProgressFrame(s, w, wt) ==
    Frame(1 :> s @@ 5 :> w @@ 6 :> wt[1] @@ 7 :> wt[2] @@ 12 :> 4 @@ 13 :> 176
          @@ 14 :> 128 @@ 15 :> 5)

\* Answers to a progress request for one slot.
ProgressResponses ==
    LET frames == {ProgressFrame(s, w, wt) : s \in {0, 2}, w \in {1, 2}, wt \in WorkTimeBytes}
    IN  {Sealed(f) : f \in frames} \cup {Corrupted(Sealed(f)) : f \in frames}

\* Answers tried for each of the four requests of get_charging_progress('all').
ProgressResponsesAll ==
    {Sealed(ProgressFrame(0, 1, <<0, 10>>)), Sealed(ProgressFrame(2, 2, <<0, 0>>)),
     Sealed(ProgressFrame(2, 1, <<255, 255>>)), Sealed(ProgressFrame(0, 2, <<0, 1>>)),
     Corrupted(Sealed(ProgressFrame(0, 1, <<0, 10>>)))}

\* The integers tried as battery_slot: the four slots, the largest value
\* the command frame can carry and two it cannot.
SlotInts == {0, 1, 2, 3, 42, 43, 200}

RECURSIVE SeqsUpTo(_, _)
\* The sequences over S of length at most n.
SeqsUpTo(S, n) ==
    IF n = 0 THEN {<<>>}
    ELSE LET shorter == SeqsUpTo(S, n - 1)
         IN  shorter \cup {Append(q, x) : q \in shorter, x \in S}

\* The values tried as battery_slot.
BatterySlotArgs ==
    {PyAll}
    \cup {PyInt(n) : n \in SlotInts}
    \cup {PyList(q) : q \in SeqsUpTo(0..(NumSlots - 1), MaxListLen)}
    \cup {PySet(q) : q \in {<<0>>, <<1, 3>>, <<0, 1, 2, 3>>}}

\* The opcodes tried with send(): the two it supports and the machine-info one.
SendOpcodes == {CMD_READ_PROGRESS_DATA, CMD_READ_CHARGER_DATA, 90}

\* -------------------------------------------------------------- the session

\* What a well-behaved charger answers while MC3000.__init__ runs.
InitialInfoResponse == Frame(8 :> 0 @@ 16 :> 1 @@ 31 :> 255)
InitialBatteryResponses == [k \in 1..NumSlots |-> GoodBattery(k - 1)]

\* Every run of get_battery_data over the answers tried.
BatteryRuns == {GetBatteryData(responses) : responses \in [1..NumSlots -> BatteryResponses]}

\* Every run of get_charging_progress over the arguments and answers tried.
ProgressRuns ==
    {[battery_slot |-> PyAll, r |-> GetChargingProgress(PyAll, responses)] :
        responses \in [1..NumSlots -> ProgressResponsesAll]}
    \cup {[battery_slot |-> battery_slot,
           r |-> GetChargingProgress(battery_slot, <<response>>)] :
            battery_slot \in BatterySlotArgs \ {PyAll},
            response \in ProgressResponses}

\* The caller is between two calls.
Idle == call \in {"init", "idle"}

\* The state the constructor leaves: machine_info and battery_data filled by
\* get_machine_info and get_battery_data.
Init ==
    LET info == DecodeMachineInfo(InitialInfoResponse)
        data == GetBatteryData(InitialBatteryResponses)
    IN  /\ machine_info = info.machine
        /\ battery_data = data.result
        /\ call = "init"
        /\ arg = NoArg
        /\ trace = <<Write(MachineInfoRequest), Read(InitialInfoResponse)>> \o data.trace
        /\ outcome = "ok"
        /\ result = NoResult

\* get_machine_info(), the device answering response.
CallGetMachineInfo ==
    /\ Idle
    /\ \E response \in MachineInfoResponses :
        LET d == DecodeMachineInfo(response)
        IN  /\ call' = "get_machine_info"
            /\ arg' = NoArg
            /\ trace' = <<Write(MachineInfoRequest), Read(response)>>
            /\ outcome' = d.outcome
            /\ result' = IF d.outcome = "ok" THEN [kind |-> "machine", v |-> d.machine]
                         ELSE NoResult
            /\ machine_info' = IF d.outcome = "ok" THEN d.machine ELSE machine_info
            /\ UNCHANGED battery_data

\* get_battery_data()
CallGetBatteryData ==
    /\ Idle
    /\ \E r \in BatteryRuns :
        /\ call' = "get_battery_data"
        /\ arg' = NoArg
        /\ trace' = r.trace
        /\ outcome' = r.outcome
        /\ result' = IF r.outcome = "ok" THEN [kind |-> "list", v |-> r.result]
                     ELSE NoResult
        /\ UNCHANGED <<machine_info, battery_data>>

\* get_charging_progress(battery_slot)
CallGetChargingProgress ==
    /\ Idle
    /\ \E run \in ProgressRuns :
        /\ call' = "get_charging_progress"
        /\ arg' = run.battery_slot
        /\ trace' = run.r.trace
        /\ outcome' = run.r.outcome
        /\ result' = IF run.r.outcome = "ok" THEN [kind |-> "list", v |-> run.r.result]
                     ELSE NoResult
        /\ UNCHANGED <<machine_info, battery_data>>

\* start()
CallStart ==
    /\ Idle
    /\ call' = "start"
    /\ arg' = NoArg
    /\ trace' = <<Write(StartPacket)>>
    /\ outcome' = "ok"
    /\ result' = NoResult
    /\ UNCHANGED <<machine_info, battery_data>>

\* stop()
CallStop ==
    /\ Idle
    /\ call' = "stop"
    /\ arg' = NoArg
    /\ trace' = <<Write(StopPacket)>>
    /\ outcome' = "ok"
    /\ result' = NoResult
    /\ UNCHANGED <<machine_info, battery_data>>

\* send(cmd, buffer) called directly with an integer payload.
CallSend ==
    /\ Idle
    /\ \E cmd \in SendOpcodes, s \in 0..MaxSlotArg :
        LET r == SendEffect(cmd, PyInt(s))
        IN  /\ call' = "send"
            /\ arg' = [kind |-> "send", cmd |-> cmd, v |-> <<s>>]
            /\ trace' = r.trace
            /\ outcome' = r.outcome
            /\ result' = NoResult
            /\ UNCHANGED <<machine_info, battery_data>>

\* The caller has taken what the call returned (or caught what it raised)
\* and is ready for the next call; the object keeps its two attributes.
Return ==
    /\ ~Idle
    /\ call' = "idle"
    /\ arg' = NoArg
    /\ trace' = <<>>
    /\ outcome' = "ok"
    /\ result' = NoResult
    /\ UNCHANGED <<machine_info, battery_data>>

Next ==
    \/ CallGetMachineInfo
    \/ CallGetBatteryData
    \/ CallGetChargingProgress
    \/ CallStart
    \/ CallStop
    \/ CallSend
    \/ Return

Spec == Init /\ [][Next]_vars

\* ============================================================ the claims

IsRead(e) == e.dir = "read"
IsWrite(e) == e.dir = "write"

\* The frames read, and the buffers written, during the last call, in order.
ReadFrames(tr) == LET reads == SelectSeq(tr, IsRead) IN [k \in 1..Len(reads) |-> reads[k].data]
WrittenFrames(tr) == LET writes == SelectSeq(tr, IsWrite) IN [k \in 1..Len(writes) |-> writes[k].data]

\* The last byte of the frame is the sum of the other 63 modulo 256.
ChecksumMatches(frame) ==
    LET S[i \in 0..63] == IF i = 0 THEN 0 ELSE S[i - 1] + frame[i]
    IN  frame[64] = S[63] % 256

\* The four enumerated codes of a charger-data frame have table entries.
CodesResolve(frame) ==
    /\ frame[4] \in 0..6
    /\ frame[5] \in 0..4
    /\ frame[22] \in 0..3
    /\ frame[30] \in 0..1

\* The command frame the wire format prescribes for opcode op and slot s.
WireCommand(op, s) == <<15, 4, op, 0, s, (op + s) % 256, 255, 255>>

\* The trace is k request/response pairs: write, read, write, read, ...
IsPairs(tr, k) ==
    /\ Len(tr) = 2 * k
    /\ \A i \in 1..Len(tr) : tr[i].dir = (IF i % 2 = 1 THEN "write" ELSE "read")

\* Every read directly follows a write.
HalfDuplex(tr) ==
    \A i \in 1..Len(tr) : tr[i].dir = "read" => (i > 1 /\ tr[i - 1].dir = "write")

\* The frames of tr's reads that pass the checksum, in order, each with the
\* slot byte of the request it answers.
ValidAnswers(tr) ==
    LET idx == {i \in 1..Len(tr) : tr[i].dir = "read" /\ ChecksumMatches(tr[i].data)}
        Rank(i) == Cardinality({j \in idx : j <= i})
    IN  [k \in 1..Cardinality(idx) |->
            LET i == CHOOSE j \in idx : Rank(j) = k
            IN  [frame |-> tr[i].data, asked |-> tr[i - 1].data[5]]]

\* The raw work_time field of a progress frame: offsets 6 and 7, big-endian,
\* two's-complement.
RawWorkTime(frame) ==
    LET u == frame[7] * 256 + frame[8]
    IN  IF frame[7] >= 128 THEN u - 65536 ELSE u

\* ---- C1 (as claimed): in get_battery_data, for any four responses, all four
\* charger-config requests (slots 0, 1, 2, 3 in that order) are sent, a slot
\* whose response fails the checksum is absent from the returned list, and
\* every other slot whose response has a matching checksum and resolvable
\* codes is decoded and present.
C1_SkipOnlyBadChecksum ==
    call = "get_battery_data" =>
        /\ IsPairs(trace, 4)
        /\ WrittenFrames(trace) = [k \in 1..4 |-> WireCommand(95, k - 1)]
        /\ outcome = "ok"
        /\ LET answers == ReadFrames(trace)
               kept == {k \in 1..4 : ChecksumMatches(answers[k]) /\ CodesResolve(answers[k])}
           IN  /\ Len(result.v) = Cardinality(kept)
               /\ \A k \in kept : \E i \in 1..Len(result.v) :
                      /\ result.v[i].slot = answers[k][2]
                      /\ result.v[i].checksum = answers[k][64]
                      /\ i = Cardinality({j \in kept : j <= k})

\* ---- C2 (as claimed): when the response for slot k passes the checksum but
\* carries a chemistry, mode, cycle-mode or unit code with no table entry, the
\* call does not fail: the requests for the remaining slots are still sent and
\* the call returns a list without a record for slot k.
C2_DecodeFailureNonFatal ==
    (/\ call = "get_battery_data"
     /\ \E i \in 1..Len(trace) :
            /\ trace[i].dir = "read"
            /\ ChecksumMatches(trace[i].data)
            /\ ~CodesResolve(trace[i].data))
    => /\ outcome = "ok"
       /\ result.kind = "list"
       /\ Len(WrittenFrames(trace)) = 4
       /\ Len(result.v) < 4

\* ---- C3 (as claimed): the transport trace of every call is half-duplex
\* (every read directly follows a write, and a query writes again only after
\* the read for its previous write); get_machine_info performs exactly one
\* write then one read, get_battery_data exactly four write/read pairs, start
\* and stop exactly one write and no read.
C3_HalfDuplexCounts ==
    /\ HalfDuplex(trace)
    /\ call \in {"get_machine_info", "get_battery_data", "get_charging_progress"}
           => \A i \in 1..Len(trace) : i % 2 = 0 <=> trace[i].dir = "read"
    /\ call = "get_machine_info" => IsPairs(trace, 1)
    /\ call = "get_battery_data" => IsPairs(trace, 4)
    /\ call \in {"start", "stop"} => (Len(trace) = 1 /\ trace[1].dir = "write")

\* The sum of the bytes of frame at offsets lo .. hi.
SumOffsets(frame, lo, hi) ==
    LET S[i \in (lo - 1)..hi] == IF i = lo - 1 THEN 0 ELSE S[i - 1] + frame[i + 1]
    IN  S[hi]

\* The one-byte two's complement of n.
TwosComplement8(n) == (256 - (n % 256)) % 256

\* The 32 hexadecimal digits of the bytes at offsets 16 .. 31.
HexOfIdBlock(frame) ==
    [k \in 1..32 |->
        LET b == frame[17 + ((k - 1) \div 2)]
        IN  HexDigits[(IF k % 2 = 1 THEN b \div 16 ELSE b % 16) + 1]]

\* ---- C4 (as claimed): get_machine_info sums the 15 bytes immediately
\* preceding the 16-byte machine-identifier block (offsets 1 .. 15, the block
\* rendered as machine_id being offsets 16 .. 31), takes the two's complement
\* and compares it with the checksum field; on mismatch it raises and returns
\* no record.
C4_SumPrecedesIdBlock ==
    call = "get_machine_info" =>
        LET response == trace[2].data
        IN  TwosComplement8(SumOffsets(response, 1, 15)) # response[32]
                => (outcome # "ok" /\ result.kind = "none")

\* ---- C4 (amended): get_machine_info sums the first 15 bytes of the 16-byte
\* block rendered as machine_id (offsets 16 .. 30, the bytes before the
\* checksum byte at offset 31), computes 256 - (sum mod 256) and compares it
\* with the checksum field; on mismatch it raises and returns no record, and
\* with a match and a valid unit selector it returns the record.
C4_SumInsideIdBlock ==
    call = "get_machine_info" =>
        LET response == trace[2].data
            expected == 256 - (SumOffsets(response, 16, 30) % 256)
        IN  /\ expected # response[32] => (outcome # "ok" /\ result.kind = "none")
            /\ (expected = response[32] /\ response[9] \in {0, 1})
                   => /\ outcome = "ok"
                      /\ result.kind = "machine"
                      /\ result.v.checksum = response[32]
                      /\ result.v.machine_id = HexOfIdBlock(response)
                      /\ machine_info = result.v

\* C4 witness: a response whose offsets 1 .. 15 predict another checksum than
\* the field, and which is accepted.
C4_Witness ==
    /\ call = "get_machine_info"
    /\ outcome = "ok"
    /\ TwosComplement8(SumOffsets(trace[2].data, 1, 15)) # trace[2].data[32]

\* ---- C5 (as claimed): every frame handed to the transport is exactly 64
\* bytes long.
C5_WritesAre64Bytes ==
    \A i \in 1..Len(trace) : trace[i].dir = "write" => Len(trace[i].data) = 64

\* ---- C5 (amended): every frame handed to the transport is 8 bytes long
\* (machine-info request, charger-config read, progress read) or 7 bytes long
\* (start, stop); only the frames read are 64 bytes long.
C5_WritesAreShort ==
    \A i \in 1..Len(trace) :
        /\ trace[i].dir = "write" =>
               Len(trace[i].data) = (IF call \in {"start", "stop"} THEN 7 ELSE 8)
        /\ trace[i].dir = "read" => Len(trace[i].data) = 64

\* C5 witness: a call that wrote four command frames and read four answers.
C5_Witness ==
    /\ call = "get_charging_progress"
    /\ Len(WrittenFrames(trace)) = 4
    /\ Len(ReadFrames(trace)) = 4

\* ---- C6 (as claimed): for each supported opcode and every slot byte s in
\* 0 .. 255, send(opcode, s) transmits header 0x0F 0x04, the opcode, a zero
\* pad byte, s, the seqcheck byte (opcode + s) mod 256 and tail 0xFF 0xFF.
C6_SendFramesEverySlot ==
    (call = "send" /\ arg.cmd \in {85, 95} /\ arg.v[1] \in 0..255) =>
        /\ outcome = "ok"
        /\ trace = <<Write(WireCommand(arg.cmd, arg.v[1]))>>
        /\ trace[1].data[6] = (arg.cmd + arg.v[1]) % 256

\* ---- C7 (as claimed): get_charging_progress called with an explicit list or
\* set S of slot indices sends exactly one progress-read command per element
\* of S, each carrying that element as its slot, and returns at most |S|
\* records.
C7_ExplicitSlotCollection ==
    (call = "get_charging_progress" /\ arg.kind \in {"list", "set"}) =>
        LET n == Len(arg.v)
            sent == WrittenFrames(trace)
        IN  /\ outcome = "ok"
            /\ Len(sent) = n
            /\ arg.kind = "list" => \A k \in 1..n : sent[k] = WireCommand(85, arg.v[k])
            /\ arg.kind = "set" => {sent[k][5] : k \in 1..n} = {arg.v[k] : k \in 1..n}
            /\ result.kind = "list" /\ Len(result.v) <= n

\* ---- C8: for every checksum-valid progress response, the decoded work_time
\* equals the raw signed 16-bit field minus one when the raw field is greater
\* than zero and the raw field unchanged otherwise.
C8_WorkTimeCorrection ==
    (call = "get_charging_progress" /\ outcome = "ok") =>
        LET answers == ValidAnswers(trace)
        IN  /\ Len(result.v) = Len(answers)
            /\ \A k \in 1..Len(answers) :
                   LET raw == RawWorkTime(answers[k].frame)
                   IN  result.v[k].work_time = (IF raw > 0 THEN raw - 1 ELSE raw)

\* C8 witness: one call decoded a raw 10 to 9 and kept a raw 0 at 0.
C8_Witness ==
    /\ call = "get_charging_progress"
    /\ outcome = "ok"
    /\ \E i, j \in 1..Len(result.v) :
           /\ RawWorkTime(ValidAnswers(trace)[i].frame) = 10
           /\ result.v[i].work_time = 9
           /\ RawWorkTime(ValidAnswers(trace)[j].frame) = 0
           /\ result.v[j].work_time = 0

\* ---- C9 (as claimed): the checksum value get_machine_info computes lies in
\* 0 .. 255, so for every content of the 15 summed bytes some value of the
\* one-byte checksum field makes the response pass the comparison.
C9_ChecksumFitsByte ==
    call = "get_machine_info" =>
        LET response == trace[2].data
        IN  /\ MachineCrc(response) \in 0..255
            /\ \E c \in 0..255 :
                   DecodeMachineInfo([response EXCEPT ![32] = c]).outcome # "Exception"

\* ---- C10 (as claimed): every record returned by get_battery_data and by
\* get_charging_progress has a slot field equal to the slot index of the
\* request that produced it, so no two records share a slot value.
C10_SlotIsRequestedSlot ==
    (call \in {"get_battery_data", "get_charging_progress"} /\ outcome = "ok") =>
        LET answers == ValidAnswers(trace)
        IN  /\ Len(result.v) = Len(answers)
            /\ \A k \in 1..Len(answers) : result.v[k].slot = answers[k].asked
            /\ \A i, j \in 1..Len(result.v) :
                   result.v[i].slot = result.v[j].slot => i = j

\* ---- C10 (amended): every record returned by get_battery_data and by
\* get_charging_progress has a slot field equal to the byte at offset 1 of the
\* response it was decoded from, whatever slot was requested; the list holds
\* at most one record per request, in request order.
C10_SlotIsAnsweredSlot ==
    (call \in {"get_battery_data", "get_charging_progress"} /\ outcome = "ok") =>
        LET answers == ValidAnswers(trace)
        IN  /\ Len(result.v) = Len(answers)
            /\ Len(result.v) <= Len(WrittenFrames(trace))
            /\ \A k \in 1..Len(answers) : result.v[k].slot = answers[k].frame[2]

\* C10 witness: get_battery_data returned two records with the same slot.
C10_Witness ==
    /\ call = "get_battery_data"
    /\ outcome = "ok"
    /\ \E i, j \in 1..Len(result.v) : i # j /\ result.v[i].slot = result.v[j].slot

====
